---------------------------- MODULE Spec2Model ----------------------------
(***************************************************************************)
(* A model of the GON parser (src/src/parser.rs, src/src/lib.rs).          *)
(*                                                                         *)
(* A character is a one-element string; the control characters the escape  *)
(* decoder produces are written "BS" (0x08), "FF" (0x0C), "LF", "CR" and   *)
(* "TAB".  A Rust String is a sequence of characters.  A cursor            *)
(* (StrParser) over the input s is the number of characters it has         *)
(* consumed.  The leaf routines of the Parser trait, which do not recurse  *)
(* into parse_val or parse_object, are operators from a cursor to a new    *)
(* cursor and a result; the mutually recursive parse_val / parse_object    *)
(* and Gon::parse run on an explicit call stack, one action per stretch of *)
(* code between two recursive calls.                                       *)
(***************************************************************************)
EXTENDS Integers, Sequences, FiniteSets, TLC

VARIABLES
    s,       \* the input of Gon::parse
    p,       \* the cursor of the parser Gon::parse creates first
    fp,      \* the cursor of the parser the single-value fallback creates
    pc,      \* where Gon::parse stands: start, direct, object, fallback, done
    stack,   \* the activations of parse_val and parse_object, innermost last
    ret,     \* the Result the last call returned, NoRet once it is taken
    stdout   \* what println! has written

vars == <<s, p, fp, pc, stack, ret, stdout>>

(***************************************************************************)
(* Bounds of the model.                                                    *)
(***************************************************************************)
\* longest input drawn from Alphabet
MaxLen == 4
\* longest input drawn from TokenAlphabet
MaxTokenLen == 5
\* longest input drawn as a run of Words
MaxWords == 6
\* an array under construction holds at most this many elements; a parse
\* that ends never comes near it, a parse whose array loop does not end stops
\* growing there
MaxArr == 8
\* most entries of an input of Separated
MaxSepEntries == 2
\* longest input of whitespace characters only
MaxBlank == 3

(***************************************************************************)
(* Characters.                                                             *)
(***************************************************************************)
DQUOTE == "\""
BSLASH == "\\"
\* Option<char>::None, the answer of peek() and next() at end of input
None == "EOF"

\* (a test that knows the space only)
is_space(c) == c = " "

is_whitespace(c) == c \in {" ", "TAB", "LF", "CR"}

Structural == {"{", "}", "[", "]", ":", ","}

(***************************************************************************)
(* Values of the program: Gon, GonError, Result.                           *)
(***************************************************************************)
GonValue(str) == [tag |-> "Value", str |-> str, arr |-> <<>>, map |-> <<>>]
GonArray(arr) == [tag |-> "Array", str |-> <<>>, arr |-> arr, map |-> <<>>]
GonObject(map) == [tag |-> "Object", str |-> <<>>, arr |-> <<>>, map |-> map]
NoGon == [tag |-> "none", str |-> <<>>, arr |-> <<>>, map |-> <<>>]

GonError(kind, arg) == [kind |-> kind, arg |-> arg]
NoError == GonError("none", <<>>)

Ok(gon) == [tag |-> "Ok", gon |-> gon, err |-> NoError]
Err(e) == [tag |-> "Err", gon |-> NoGon, err |-> e]
\* no call has returned
NoRet == [tag |-> "none", gon |-> NoGon, err |-> NoError]

\* HashMap::new, HashMap::get(..).is_some(), HashMap::insert
EmptyMap == <<>>
\* (a map that reports no key as present)
MapHasNothing(map, key) == FALSE
MapHas(map, key) == key \in DOMAIN map
MapInsert(map, key, val) ==
    [k \in (DOMAIN map) \cup {key} |-> IF k = key THEN val ELSE map[k]]

(***************************************************************************)
(* The cursor: StrParser::peek and StrParser::next on the input str after  *)
(* i characters were consumed.                                             *)
(***************************************************************************)
peek(str, i) == IF i < Len(str) THEN str[i + 1] ELSE None
next(str, i) == IF i < Len(str) THEN i + 1 ELSE i

(***************************************************************************)
(* skip_whitespace: the cursor after the run of whitespace at i.           *)
(***************************************************************************)
RECURSIVE skip_whitespace(_, _)
skip_whitespace(str, i) ==
    IF peek(str, i) # None /\ is_whitespace(peek(str, i))
    THEN skip_whitespace(str, next(str, i))
    ELSE i

(***************************************************************************)
(* skip_whitespace_and_token: whitespace, one optional c, whitespace.      *)
(***************************************************************************)
\* (whitespace only: the token is looked at but left in place)
skip_whitespace_leave_token(str, i, c) ==
    LET i1 == skip_whitespace(str, i)
    IN  [pos |-> i1, skip |-> peek(str, i1) = c]

skip_whitespace_and_token(str, i, c) ==
    LET i1 == skip_whitespace(str, i)
        skip == peek(str, i1) = c
        i2 == IF skip THEN next(str, i1) ELSE i1
    IN  [pos |-> skip_whitespace(str, i2), skip |-> skip]

(***************************************************************************)
(* parse_escape: called after a backslash was consumed.                    *)
(***************************************************************************)
EscapeTable ==
    [c \in {DQUOTE, BSLASH, "/", "b", "f", "n", "r", "t"} |->
        CASE c = DQUOTE -> DQUOTE
          [] c = BSLASH -> BSLASH
          [] c = "/" -> "/"
          [] c = "b" -> "BS"
          [] c = "f" -> "FF"
          [] c = "n" -> "LF"
          [] c = "r" -> "CR"
          [] c = "t" -> "TAB"]

\* (an escape decoder that hands back the character after the backslash)
parse_escape_literal(str, i) ==
    LET c == peek(str, i)
        i1 == next(str, i)
    IN  CASE c = None ->
               [ok |-> FALSE, ch |-> None, pos |-> i1,
                err |-> GonError("EscapeCharacterExpected", <<>>)]
          [] c = "u" ->
               [ok |-> FALSE, ch |-> None, pos |-> i1,
                err |-> GonError("HexEscapesNotSupported", <<>>)]
          [] c \in DOMAIN EscapeTable ->
               [ok |-> TRUE, ch |-> c, pos |-> i1, err |-> NoError]
          [] OTHER ->
               [ok |-> FALSE, ch |-> None, pos |-> i1,
                err |-> GonError("UnexpectedEscapeCharacter", <<c>>)]

\* (an escape decoder without the arm for u)
parse_escape_no_hex(str, i) ==
    LET c == peek(str, i)
        i1 == next(str, i)
    IN  CASE c = None ->
               [ok |-> FALSE, ch |-> None, pos |-> i1,
                err |-> GonError("EscapeCharacterExpected", <<>>)]
          [] c \in DOMAIN EscapeTable ->
               [ok |-> TRUE, ch |-> EscapeTable[c], pos |-> i1, err |-> NoError]
          [] OTHER ->
               [ok |-> FALSE, ch |-> None, pos |-> i1,
                err |-> GonError("UnexpectedEscapeCharacter", <<c>>)]

parse_escape(str, i) ==
    LET c == peek(str, i)
        i1 == next(str, i)
    IN  CASE c = None ->
               [ok |-> FALSE, ch |-> None, pos |-> i1,
                err |-> GonError("EscapeCharacterExpected", <<>>)]
          [] c = "u" ->
               [ok |-> FALSE, ch |-> None, pos |-> i1,
                err |-> GonError("HexEscapesNotSupported", <<>>)]
          [] c \in DOMAIN EscapeTable ->
               [ok |-> TRUE, ch |-> EscapeTable[c], pos |-> i1, err |-> NoError]
          [] OTHER ->
               [ok |-> FALSE, ch |-> None, pos |-> i1,
                err |-> GonError("UnexpectedEscapeCharacter", <<c>>)]

(***************************************************************************)
(* parse_string.  StrOk / StrErr are its Result<String, GonError> together *)
(* with the cursor it leaves.                                              *)
(***************************************************************************)
StrOk(str, i) == [ok |-> TRUE, str |-> str, pos |-> i, err |-> NoError]
StrErr(e, i) == [ok |-> FALSE, str |-> <<>>, pos |-> i, err |-> e]

\* the loop of the quoted branch, res being the String built so far
RECURSIVE QuotedLoop(_, _, _)
QuotedLoop(str, i, res) ==
    LET c == peek(str, i)
        i1 == next(str, i)
    IN  CASE c = BSLASH ->
               LET e == parse_escape(str, i1)
               IN  IF e.ok THEN QuotedLoop(str, e.pos, Append(res, e.ch))
                           ELSE StrErr(e.err, e.pos)
          [] c = DQUOTE -> StrOk(res, i1)
          [] c = None -> StrErr(GonError("QuoteExpected", <<>>), i1)
          [] OTHER -> QuotedLoop(str, i1, Append(res, c))

\* (a bare loop that also stops at `#`)
RECURSIVE BareLoopHashEnds(_, _, _)
BareLoopHashEnds(str, i, res) ==
    LET c == peek(str, i)
    IN  CASE c = BSLASH ->
               LET e == parse_escape(str, next(str, i))
               IN  IF e.ok THEN BareLoopHashEnds(str, e.pos, res)
                           ELSE StrErr(e.err, e.pos)
          [] c \in Structural \cup {"#"} -> StrOk(res, i)
          [] c # None /\ is_whitespace(c) -> StrOk(res, i)
          [] c = None -> StrOk(res, i)
          [] OTHER -> BareLoopHashEnds(str, next(str, i), Append(res, c))

\* the loop of the bare branch: the decoded escape is dropped, not pushed
RECURSIVE BareLoop(_, _, _)
BareLoop(str, i, res) ==
    LET c == peek(str, i)
    IN  CASE c = BSLASH ->
               LET e == parse_escape(str, next(str, i))
               IN  IF e.ok THEN BareLoop(str, e.pos, res)
                           ELSE StrErr(e.err, e.pos)
          [] c \in Structural -> StrOk(res, i)
          [] c # None /\ is_whitespace(c) -> StrOk(res, i)
          [] c = None -> StrOk(res, i)
          [] OTHER -> BareLoop(str, next(str, i), Append(res, c))

parse_string(str, i) ==
    CASE peek(str, i) = DQUOTE -> QuotedLoop(str, next(str, i), <<>>)
      [] peek(str, i) = None -> StrErr(GonError("StringExpected", <<>>), i)
      [] OTHER -> BareLoop(str, i, <<>>)


(***************************************************************************)
(* The inputs: every string of at most MaxLen characters of Alphabet       *)
(* (the structural characters), every string of at most MaxTokenLen        *)
(* characters of TokenAlphabet (quotes, escapes and hashes), every run of  *)
(* at most MaxWords words of Words, each followed by one blank, the        *)
(* entries and array elements of Separated, written with and without their *)
(* separators, every string of at most MaxBlank whitespace characters, and *)
(* the inputs of the tests of src/src/lib.rs.                              *)
(***************************************************************************)
Alphabet == {"a", " ", "#", DQUOTE, BSLASH, "{", "}", "[", "]", ":", ","}

TokenAlphabet == {"a", "b", "u", "#", " ", DQUOTE, BSLASH}

Words == {"a", "b", "{", "}"}

RECURSIVE Spaced(_)
Spaced(ws) == IF ws = <<>> THEN <<>> ELSE <<Head(ws), " ">> \o Spaced(Tail(ws))

StringsUpTo(chars, n) == UNION {[1..k -> chars] : k \in 0..n}

\* test::single_values: "123.456"
TestSingleNumber == <<"1", "2", "3", ".", "4", "5", "6">>
\* test::single_values: "Hello World" in quotes, on a line of its own
TestSingleQuoted ==
    <<"LF", " ", DQUOTE, "H", "e", "l", "l", "o", " ", "W", "o", "r", "l", "d",
      DQUOTE, "LF", " ">>
\* test::single_values: Hello World without quotes, on a line of its own
TestHelloWorld ==
    <<"LF", " ", "H", "e", "l", "l", "o", " ", "W", "o", "r", "l", "d", "LF", " ">>
\* test::escape_codes: "\b \f \n \r \t \" \\ \/"
TestEscapeCodes ==
    <<DQUOTE, BSLASH, "b", " ", BSLASH, "f", " ", BSLASH, "n", " ", BSLASH, "r", " ",
      BSLASH, "t", " ", BSLASH, DQUOTE, " ", BSLASH, BSLASH, " ", BSLASH, "/", DQUOTE>>
\* test::comments: b # a comment <newline> 13
TestComment ==
    <<"b", " ", "#", " ", "a", " ", "c", "o", "m", "m", "e", "n", "t", "LF", "1", "3">>
\* test::comments: text2 Hashes_#inside#
TestHashes ==
    <<"t", "e", "x", "t", "2", " ", "H", "a", "s", "h", "e", "s", "_", "#",
      "i", "n", "s", "i", "d", "e", "#">>
\* test::parse_gon: weekdays [Monday Tuesday], shortened
TestWeekdays ==
    <<"w", "d", " ", "[", "M", "o", " ", "T", "u", " ", "W", "e", "]", "LF">>

\* test::json_gon: [{"i": "1,4", "f": [{"n": 0}, {"n": 1}]}], shortened
TestJson ==
    <<"LF", "[", "LF", " ", "{", DQUOTE, "i", DQUOTE, ":", " ", DQUOTE, "1", ",", "4", DQUOTE,
      ",", "LF", " ", DQUOTE, "f", DQUOTE, ":", " ", "[", "{", DQUOTE, "n", DQUOTE, ":", " ",
      "0", "}", ",", "LF", "{", DQUOTE, "n", DQUOTE, ":", " ", "1", "}", "]", "LF", "}",
      "LF", "]", "LF">>

Tests ==
    {TestSingleNumber, TestSingleQuoted, TestHelloWorld, TestEscapeCodes,
     TestComment, TestHashes, TestWeekdays, TestJson}

\* the ways of writing the place between a key and its value, and the place
\* after an entry or an array element
KeySeps == {<<" ">>, <<":">>, <<" ", ":", " ">>}
EntrySeps == {<<" ">>, <<",">>, <<" ", ",", " ">>}
\* an entry of key a or b and value a, an array element a or b, each with
\* the separators written one of these ways
SepEntry ==
    {<<k>> \o ks \o <<"a">> \o es : k \in {"a", "b"}, ks \in KeySeps, es \in EntrySeps}
SepElem == {<<w>> \o es : w \in {"a", "b"}, es \in EntrySeps}
\* the concatenations of at most n members of set
RECURSIVE Concats(_, _)
Concats(set, n) ==
    IF n = 0 THEN {<<>>}
    ELSE {<<>>} \cup {x \o y : x \in set, y \in Concats(set, n - 1)}
\* at most MaxSepEntries entries, brace-less and in braces, and at most
\* MaxSepEntries + 1 elements in brackets
Separated ==
    LET E == Concats(SepEntry, MaxSepEntries)
    IN  E \cup {<<"{">> \o e \o <<"}">> : e \in E}
          \cup {<<"[">> \o a \o <<"]">> : a \in Concats(SepElem, MaxSepEntries + 1)}

\* the four whitespace characters
Whitespace == {" ", "TAB", "LF", "CR"}

Inputs ==
    StringsUpTo(Alphabet, MaxLen)
        \cup StringsUpTo(TokenAlphabet, MaxTokenLen)
        \cup {Spaced(ws) : ws \in StringsUpTo(Words, MaxWords)}
        \cup Separated
        \cup StringsUpTo(Whitespace, MaxBlank)
        \cup Tests

(***************************************************************************)
(* The call stack.  A frame is an activation of parse_object or parse_val  *)
(* with its locals (map and key, arr) and the place it resumes at.         *)
(***************************************************************************)
ObjectFrame(at, map, key) ==
    [fn |-> "parse_object", at |-> at, map |-> map, key |-> key, arr |-> <<>>]
ValFrame(at, arr) ==
    [fn |-> "parse_val", at |-> at, map |-> <<>>, key |-> <<>>, arr |-> arr]

Top == stack[Len(stack)]
Pop == SubSeq(stack, 1, Len(stack) - 1)
Running(fn, at) == stack # <<>> /\ Top.fn = fn /\ Top.at = at

\* the parser the running code reads through: the fallback's own p shadows
\* the first one inside the match arm
cur == IF pc = "fallback" THEN fp ELSE p
SetCur(i) ==
    IF pc = "fallback" THEN fp' = i /\ UNCHANGED p ELSE p' = i /\ UNCHANGED fp

\* return r to the caller
Return(r) == stack' = Pop /\ ret' = r
\* the callee's Err leaves this frame too (the ? operator)
Propagate == stack' = Pop /\ UNCHANGED <<ret, p, fp>>

Init ==
    /\ s \in Inputs
    /\ p = 0
    /\ fp = 0
    /\ pc = "start"
    /\ stack = <<>>
    /\ ret = NoRet
    /\ stdout = <<>>

\* (a while loop that tests for `}` only, not for end of input)
ObjectLoopToBrace ==
    /\ Running("parse_object", "loop")
    /\ ret = NoRet
    /\ IF peek(s, cur) = "}"
       THEN /\ Return(Ok(GonObject(Top.map)))
            /\ UNCHANGED <<p, fp>>
       ELSE LET key == parse_string(s, cur)
            IN  IF ~key.ok
                THEN /\ SetCur(key.pos)
                     /\ Return(Err(key.err))
                ELSE /\ SetCur(skip_whitespace_and_token(s, key.pos, ":").pos)
                     /\ stack' = Append(Append(Pop, ObjectFrame("val", Top.map, key.str)),
                                        ValFrame("match", <<>>))
                     /\ ret' = NoRet
    /\ UNCHANGED <<s, pc, stdout>>

(***************************************************************************)
(* parse_object: the test of the while loop, the key, the optional `:`,    *)
(* and the call of parse_val.                                              *)
(***************************************************************************)
ObjectLoop ==
    /\ Running("parse_object", "loop")
    /\ ret = NoRet
    /\ IF peek(s, cur) \in {"}", None}
       THEN /\ Return(Ok(GonObject(Top.map)))
            /\ UNCHANGED <<p, fp>>
       ELSE LET key == parse_string(s, cur)
            IN  IF ~key.ok
                THEN /\ SetCur(key.pos)
                     /\ Return(Err(key.err))
                ELSE /\ SetCur(skip_whitespace_and_token(s, key.pos, ":").pos)
                     /\ stack' = Append(Append(Pop, ObjectFrame("val", Top.map, key.str)),
                                        ValFrame("match", <<>>))
                     /\ ret' = NoRet
    /\ UNCHANGED <<s, pc, stdout>>

(***************************************************************************)
(* parse_object after parse_val returned: the duplicate check, the insert  *)
(* and the optional `,`.                                                   *)
(***************************************************************************)
ObjectInsert ==
    /\ Running("parse_object", "val")
    /\ ret # NoRet
    /\ IF ret.tag = "Err"
       THEN Propagate
       ELSE IF MapHas(Top.map, Top.key)
            THEN /\ Return(Err(GonError("DuplicateKey", Top.key)))
                 /\ UNCHANGED <<p, fp>>
            ELSE /\ SetCur(skip_whitespace_and_token(s, cur, ",").pos)
                 /\ stack' = Append(Pop, ObjectFrame("loop",
                                 MapInsert(Top.map, Top.key, ret.gon), <<>>))
                 /\ ret' = NoRet
    /\ UNCHANGED <<s, pc, stdout>>

(***************************************************************************)
(* parse_val: the match on peek().                                         *)
(***************************************************************************)
ValMatch ==
    /\ Running("parse_val", "match")
    /\ ret = NoRet
    /\ LET c == peek(s, cur)
       IN  CASE c = "{" ->
                  /\ SetCur(skip_whitespace(s, next(s, cur)))
                  /\ stack' = Append(Append(Pop, ValFrame("object", <<>>)),
                                     ObjectFrame("loop", EmptyMap, <<>>))
                  /\ ret' = NoRet
             [] c = "[" ->
                  /\ SetCur(skip_whitespace(s, next(s, cur)))
                  /\ stack' = Append(Pop, ValFrame("array_loop", <<>>))
                  /\ ret' = NoRet
             [] c = None ->
                  /\ Return(Err(GonError("ValueExpected", <<>>)))
                  /\ UNCHANGED <<p, fp>>
             [] OTHER ->
                  LET val == parse_string(s, cur)
                  IN  /\ SetCur(val.pos)
                      /\ Return(IF val.ok THEN Ok(GonValue(val.str)) ELSE Err(val.err))
    /\ UNCHANGED <<s, pc, stdout>>

\* (a `{` arm that takes end of input for the closing brace)
ValObjectReturnLenient ==
    /\ Running("parse_val", "object")
    /\ ret # NoRet
    /\ IF ret.tag = "Err"
       THEN Propagate
       ELSE /\ SetCur(next(s, cur))
            /\ Return(IF peek(s, cur) \in {"}", None}
                      THEN Ok(ret.gon)
                      ELSE Err(GonError("ClosingBraceExpected", <<>>)))
    /\ UNCHANGED <<s, pc, stdout>>

(***************************************************************************)
(* parse_val, `{` arm, after parse_object returned: the closing brace.     *)
(***************************************************************************)
ValObjectReturn ==
    /\ Running("parse_val", "object")
    /\ ret # NoRet
    /\ IF ret.tag = "Err"
       THEN Propagate
       ELSE /\ SetCur(next(s, cur))
            /\ Return(IF peek(s, cur) = "}"
                      THEN Ok(ret.gon)
                      ELSE Err(GonError("ClosingBraceExpected", <<>>)))
    /\ UNCHANGED <<s, pc, stdout>>

(***************************************************************************)
(* parse_val, `[` arm: one turn of the loop up to the call of parse_val.   *)
(***************************************************************************)
ArrayLoop ==
    /\ Running("parse_val", "array_loop")
    /\ ret = NoRet
    /\ LET c == peek(s, cur)
       IN  CASE c = "]" ->
                  /\ SetCur(next(s, cur))
                  /\ Return(Ok(GonArray(Top.arr)))
             [] c = None ->
                  /\ Return(Err(GonError("ClosingBracketExpected", <<>>)))
                  /\ UNCHANGED <<p, fp>>
             [] OTHER ->
                  /\ Len(Top.arr) < MaxArr
                  /\ stack' = Append(Append(Pop, ValFrame("array_elem", Top.arr)),
                                     ValFrame("match", <<>>))
                  /\ ret' = NoRet
                  /\ UNCHANGED <<p, fp>>
    /\ UNCHANGED <<s, pc, stdout>>

(***************************************************************************)
(* parse_val, `[` arm, after the element's parse_val returned: the push    *)
(* and the optional `,`.                                                   *)
(***************************************************************************)
ArrayPush ==
    /\ Running("parse_val", "array_elem")
    /\ ret # NoRet
    /\ IF ret.tag = "Err"
       THEN Propagate
       ELSE /\ SetCur(skip_whitespace_and_token(s, cur, ",").pos)
            /\ stack' = Append(Pop, ValFrame("array_loop", Append(Top.arr, ret.gon)))
            /\ ret' = NoRet
    /\ UNCHANGED <<s, pc, stdout>>

(***************************************************************************)
(* Gon::parse.                                                             *)
(***************************************************************************)
\* the end of Gon::parse: it asks the first parser, p, whether input is left
EndOfFile(gon) ==
    LET i == skip_whitespace(s, p)
    IN  /\ p' = i
        /\ ret' = IF peek(s, i) # None
                  THEN Err(GonError("EndOfFileExpected", <<>>))
                  ELSE Ok(gon)
        /\ pc' = "done"

\* a new parser, the leading whitespace, and the branch on the first character
ParseStart ==
    /\ pc = "start"
    /\ LET i == skip_whitespace(s, 0)
       IN  /\ p' = i
           /\ IF peek(s, i) \in {"{", "["}
              THEN /\ pc' = "direct"
                   /\ stack' = <<ValFrame("match", <<>>)>>
              ELSE /\ pc' = "object"
                   /\ stack' = <<ObjectFrame("loop", EmptyMap, <<>>)>>
    /\ UNCHANGED <<s, fp, ret, stdout>>

\* p.parse_val()? on the `{` / `[` path
ParseDirectReturn ==
    /\ pc = "direct"
    /\ stack = <<>>
    /\ ret # NoRet
    /\ IF ret.tag = "Err"
       THEN pc' = "done" /\ UNCHANGED <<p, ret>>
       ELSE EndOfFile(ret.gon)
    /\ UNCHANGED <<s, fp, stack, stdout>>

\* match p.parse_object(): the fallback on ValueExpected, res? otherwise
ParseObjectReturn ==
    /\ pc = "object"
    /\ stack = <<>>
    /\ ret # NoRet
    /\ IF ret = Err(GonError("ValueExpected", <<>>))
       THEN /\ stdout' = Append(stdout, <<"Falling back to parsing value: ", s>>)
            /\ fp' = skip_whitespace(s, 0)
            /\ stack' = <<ValFrame("match", <<>>)>>
            /\ ret' = NoRet
            /\ pc' = "fallback"
            /\ UNCHANGED p
       ELSE /\ IF ret.tag = "Err"
               THEN pc' = "done" /\ UNCHANGED <<p, ret>>
               ELSE EndOfFile(ret.gon)
            /\ UNCHANGED <<fp, stack, stdout>>
    /\ UNCHANGED s

\* if let Ok(gon) = p.parse_val() in the fallback
ParseFallbackReturn ==
    /\ pc = "fallback"
    /\ stack = <<>>
    /\ ret # NoRet
    /\ IF ret.tag = "Ok"
       THEN EndOfFile(ret.gon)
       ELSE /\ ret' = Err(GonError("InvalidGon", <<>>))
            /\ pc' = "done"
            /\ UNCHANGED p
    /\ UNCHANGED <<s, fp, stack, stdout>>

Next ==
    \/ ParseStart
    \/ ObjectLoop
    \/ ObjectInsert
    \/ ValMatch
    \/ ValObjectReturn
    \/ ArrayLoop
    \/ ArrayPush
    \/ ParseDirectReturn
    \/ ParseObjectReturn
    \/ ParseFallbackReturn

Spec == Init /\ [][Next]_vars

(***************************************************************************)
(* What the claims speak of.                                               *)
(***************************************************************************)
\* Gon::parse has returned; ret is its Result
Done == pc = "done"
\* the single-value fallback was taken (it prints before it parses)
FellBack == stdout # <<>>
\* the cursor of the parser that produced the tree Gon::parse returns
Producer == IF FellBack THEN fp ELSE p

Chars(str) == {str[i] : i \in DOMAIN str}

\* every key and every Value string of a tree
RECURSIVE TreeStrings(_)
TreeStrings(gon) ==
    CASE gon.tag = "Value" -> {gon.str}
      [] gon.tag = "Array" -> UNION {TreeStrings(gon.arr[i]) : i \in DOMAIN gon.arr}
      [] gon.tag = "Object" ->
           (DOMAIN gon.map) \cup UNION {TreeStrings(gon.map[k]) : k \in DOMAIN gon.map}
      [] OTHER -> {}

(***************************************************************************)
(* C1: Gon::parse returns Ok only if the parser that produced the returned *)
(* tree has consumed the whole input up to trailing whitespace, on the     *)
(* direct path, the implicit-object path and the fallback path alike.      *)
(***************************************************************************)
C1_OkConsumesInput ==
    (Done /\ ret.tag = "Ok") => skip_whitespace(s, Producer) = Len(s)

(***************************************************************************)
(* C2: Gon::parse terminates; in particular every turn of the array loop   *)
(* of parse_val consumes at least one character or ends the loop, so an    *)
(* array under construction has fewer elements than its parser has         *)
(* consumed characters (the `[` and one at least for each element).        *)
(***************************************************************************)
C2_ArrayLoopConsumes ==
    \A i \in DOMAIN stack :
        stack[i].at \in {"array_loop", "array_elem"} => Len(stack[i].arr) < cur

(***************************************************************************)
(* C3: a `#` at a token boundary starts a comment that is discarded up to  *)
(* the end of the line: `b # a comment <newline> 13` gives key b mapped to *)
(* Value 13, and where no quote and no escape is in the input no key and   *)
(* no Value of the returned tree begins with `#`.                          *)
(***************************************************************************)
C3_CommentsInvisible ==
    Done =>
        /\ s = TestComment =>
             /\ ret.tag = "Ok"
             /\ ret.gon = GonObject(<<"b">> :> GonValue(<<"1", "3">>))
        /\ (ret.tag = "Ok" /\ Chars(s) \cap {DQUOTE, BSLASH} = {}) =>
             \A str \in TreeStrings(ret.gon) : str = <<>> \/ str[1] # "#"

(***************************************************************************)
(* Inputs of words and blanks.  A plain input holds ordinary characters    *)
(* and whitespace only; its words are its maximal runs of ordinary         *)
(* characters.                                                             *)
(***************************************************************************)
IsBlank(c) == c \in {" ", "TAB", "LF", "CR"}
Plain(str) == Chars(str) \cap (Structural \cup {DQUOTE, BSLASH, "#"}) = {}
WordStarts(str) ==
    {i \in DOMAIN str : ~IsBlank(str[i]) /\ (i = 1 \/ IsBlank(str[i - 1]))}
NotBlank(c) == ~IsBlank(c)

\* the i-th word of a run of one-letter words, each followed by one blank
WordAt(str, i) == <<str[2 * i - 1]>>
\* str is a run of one-letter words over a and b, each followed by one blank
IsFlatRun(str) ==
    /\ Len(str) % 2 = 0
    /\ \A i \in DOMAIN str : IF i % 2 = 1 THEN str[i] \in {"a", "b"} ELSE str[i] = " "
\* str is such a run between `{ ` and `} `
IsBracedRun(str) ==
    /\ Len(str) >= 4
    /\ SubSeq(str, 1, 2) = <<"{", " ">>
    /\ SubSeq(str, Len(str) - 1, Len(str)) = <<"}", " ">>
    /\ IsFlatRun(SubSeq(str, 3, Len(str) - 2))
\* the entries a run of words spells: (key, value) pairs of adjacent words
NumEntries(run) == Len(run) \div 4
EntryKey(run, j) == WordAt(run, 2 * j - 1)
EntryVal(run, j) == WordAt(run, 2 * j)
\* the entries whose key an earlier entry has
Repeats(run) ==
    {j \in 1..NumEntries(run) : \E i \in 1..(j - 1) : EntryKey(run, i) = EntryKey(run, j)}
FirstRepeat(run) == CHOOSE j \in Repeats(run) : \A k \in Repeats(run) : j <= k
\* what the claim expects of a run that spells whole entries only
ExpectedOfRun(run) ==
    IF Repeats(run) # {}
    THEN Err(GonError("DuplicateKey", EntryKey(run, FirstRepeat(run))))
    ELSE Ok(GonObject(
            [k \in {EntryKey(run, j) : j \in 1..NumEntries(run)} |->
                GonValue(EntryVal(run, CHOOSE j \in 1..NumEntries(run) : EntryKey(run, j) = k))]))

(***************************************************************************)
(* C4, as claimed: whenever the same key occurs twice within one object,   *)
(* Gon::parse fails with DuplicateKey carrying that key.  An object whose  *)
(* parse_object has read a key that is already in its map has that key     *)
(* twice; when the key is a word without `#` and text follows it (the      *)
(* parse of its value does not fail for want of input), no error but       *)
(* DuplicateKey may come of it.                                            *)
(***************************************************************************)
C4_SecondKeyAlwaysDuplicateKey ==
    \A i \in DOMAIN stack :
        ( /\ stack[i].fn = "parse_object"
          /\ stack[i].at = "val"
          /\ stack[i].key # <<>>
          /\ "#" \notin Chars(stack[i].key)
          /\ MapHas(stack[i].map, stack[i].key)
          /\ ret.tag = "Err"
          /\ ret.err.kind # "ValueExpected" )
        => ret.err = GonError("DuplicateKey", stack[i].key)

(***************************************************************************)
(* C4, amended: duplicate keys are rejected at the point of insertion,     *)
(* never overwritten.  Once an entry is read whole (key and value) whose   *)
(* key is already in the object, parse_object raises DuplicateKey with     *)
(* that key; a DuplicateKey error reaches the caller of Gon::parse         *)
(* unchanged; no step changes the value a key of an object under           *)
(* construction maps to; and a run of whole entries, brace-less or in      *)
(* braces, fails with DuplicateKey of the first repeated key or else gives *)
(* the Object that maps each key to the value of its single entry.         *)
(***************************************************************************)
DuplicatePending ==
    Running("parse_object", "val") /\ ret.tag = "Ok" /\ MapHas(Top.map, Top.key)

C4_RaisedAtInsertion ==
    DuplicatePending => ret' = Err(GonError("DuplicateKey", Top.key))

C4_ErrorKept ==
    (ret.tag = "Err" /\ ret.err.kind = "DuplicateKey") => ret' = ret

C4_NeverOverwritten ==
    \A i \in (DOMAIN stack) \cap (DOMAIN stack') :
        (stack[i].fn = "parse_object" /\ stack'[i].fn = "parse_object") =>
            \A k \in DOMAIN stack[i].map :
                k \in DOMAIN stack'[i].map /\ stack'[i].map[k] = stack[i].map[k]

C4_RunOfEntries ==
    Done =>
        /\ (IsFlatRun(s) /\ Len(s) % 4 = 0) => ret = ExpectedOfRun(s)
        /\ (IsBracedRun(s) /\ Len(s) % 4 = 0) =>
              ret = ExpectedOfRun(SubSeq(s, 3, Len(s) - 2))

\* C4, amended: raised at the insertion, kept up to the caller, nothing
\* overwritten, and the expected result for every run of whole entries
C4_DuplicateKeysRejected ==
    /\ [][C4_RaisedAtInsertion /\ C4_ErrorKept /\ C4_NeverOverwritten]_vars
    /\ []C4_RunOfEntries

\* a braced object with a repeated key has failed with DuplicateKey
C4_Witness ==
    /\ Done
    /\ IsBracedRun(s)
    /\ ret = Err(GonError("DuplicateKey", <<"a">>))

(***************************************************************************)
(* C5: for input that does not start with `{` or `[`, Gon::parse returns a *)
(* top-level Value exactly when the whole input is one scalar token, and   *)
(* the Value holds its text; with a key/value pair in the input the result *)
(* is an Object or an error.  Stated of the plain inputs, whose tokens are *)
(* their words, of the inputs of test::single_values, and of `[`.          *)
(***************************************************************************)
C5_RootDisambiguation ==
    Done =>
        /\ Plain(s) =>
             /\ Cardinality(WordStarts(s)) = 1 =>
                  ret = Ok(GonValue(SelectSeq(s, NotBlank)))
             /\ Cardinality(WordStarts(s)) # 1 =>
                  ~(ret.tag = "Ok" /\ ret.gon.tag = "Value")
        /\ s = TestSingleQuoted =>
             ret = Ok(GonValue(<<"H", "e", "l", "l", "o", " ", "W", "o", "r", "l", "d">>))
        /\ (s # <<>> /\ s[1] = "[" /\ ret.tag = "Ok") => ret.gon.tag = "Array"

(***************************************************************************)
(* Tokens as the claims describe them, read off the input text alone.      *)
(***************************************************************************)
\* the escape sequences and the character each stands for
EscapeOf ==
    ("b" :> "BS") @@ ("f" :> "FF") @@ ("n" :> "LF") @@ ("r" :> "CR") @@ ("t" :> "TAB")
        @@ (DQUOTE :> DQUOTE) @@ (BSLASH :> BSLASH) @@ ("/" :> "/")

\* text in which every backslash starts one of these escapes and no quote
\* stands unescaped
RECURSIVE WellEscaped(_)
WellEscaped(body) ==
    \/ body = <<>>
    \/ /\ body[1] = BSLASH
       /\ Len(body) >= 2
       /\ body[2] \in DOMAIN EscapeOf
       /\ WellEscaped(SubSeq(body, 3, Len(body)))
    \/ /\ body[1] \notin {BSLASH, DQUOTE}
       /\ WellEscaped(Tail(body))

\* such text with each escape sequence replaced by its character
RECURSIVE Decoded(_)
Decoded(body) ==
    IF body = <<>> THEN <<>>
    ELSE IF body[1] = BSLASH
         THEN <<EscapeOf[body[2]]>> \o Decoded(SubSeq(body, 3, Len(body)))
         ELSE <<body[1]>> \o Decoded(Tail(body))

\* str is one quoted string with well-escaped text between its quotes
IsQuotedString(str) ==
    /\ Len(str) >= 2
    /\ str[1] = DQUOTE
    /\ str[Len(str)] = DQUOTE
    /\ WellEscaped(SubSeq(str, 2, Len(str) - 1))
QuotedText(str) == Decoded(SubSeq(str, 2, Len(str) - 1))

\* a character that neither ends a bare token nor starts a quote or an escape
Ordinary(c) == ~IsBlank(c) /\ c \notin Structural \cup {DQUOTE, BSLASH}
AllOrdinary(str) == \A i \in DOMAIN str : Ordinary(str[i])
AllBlank(str) == \A i \in DOMAIN str : IsBlank(str[i])

(***************************************************************************)
(* C6: inside a quoted string each escape sequence \b \f \n \r \t \" \\ \/ *)
(* is replaced by exactly one character, all other characters are copied   *)
(* unchanged and in order, and an escaped quote does not end the string.   *)
(* Stated of a quoted string that is the whole input, of one that is the   *)
(* value of key a, and of the input of test::escape_codes.                 *)
(***************************************************************************)
C6_QuotedEscapes ==
    Done =>
        /\ IsQuotedString(s) => ret = Ok(GonValue(QuotedText(s)))
        /\ (Len(s) > 2 /\ SubSeq(s, 1, 2) = <<"a", " ">>
                /\ IsQuotedString(SubSeq(s, 3, Len(s)))) =>
              ret = Ok(GonObject(<<"a">> :> GonValue(QuotedText(SubSeq(s, 3, Len(s))))))
        /\ s = TestEscapeCodes =>
              ret = Ok(GonValue(<<"BS", " ", "FF", " ", "LF", " ", "CR", " ", "TAB", " ",
                                  DQUOTE, " ", BSLASH, " ", "/">>))

\* the quoted string "\"a" has given the two characters quote and a
C6_Witness ==
    /\ Done
    /\ s = <<DQUOTE, BSLASH, DQUOTE, "a", DQUOTE>>
    /\ ret = Ok(GonValue(<<DQUOTE, "a">>))

(***************************************************************************)
(* C7: a bare token decodes escapes inline: an input that is one bare      *)
(* token gives the Value of its decoded text, as the quoted string of the  *)
(* same text does (bare a\bb gives a, 0x08, b).                            *)
(***************************************************************************)
\* ordinary characters and escape sequences only
RECURSIVE IsBareText(_)
IsBareText(body) ==
    \/ body = <<>>
    \/ /\ body[1] = BSLASH
       /\ Len(body) >= 2
       /\ body[2] \in DOMAIN EscapeOf
       /\ IsBareText(SubSeq(body, 3, Len(body)))
    \/ /\ Ordinary(body[1])
       /\ IsBareText(Tail(body))

\* C7: an input that is one bare token gives the Value of its decoded text
C7_BareEscapes ==
    (Done /\ s # <<>> /\ s[1] # "#" /\ IsBareText(s)) => ret = Ok(GonValue(Decoded(s)))

(***************************************************************************)
(* C8: escape errors are distinct and reach the caller of Gon::parse       *)
(* unchanged.  Where the first backslash of the input stands in the first  *)
(* key or in the first value, in a bare token or in a quoted string, the   *)
(* parse fails with HexEscapesNotSupported if u follows it, with           *)
(* EscapeCharacterExpected if nothing follows it, and with                 *)
(* UnexpectedEscapeCharacter(c) if another character c that is no escape   *)
(* follows it; and an escape error Gon::parse returns is the one of the    *)
(* backslash its parser has just read.                                     *)
(***************************************************************************)
EscapeErrors == {"HexEscapesNotSupported", "UnexpectedEscapeCharacter", "EscapeCharacterExpected"}

\* the start of a token: bare text, or an opening quote and text
IsTokenStart(str) ==
    \/ AllOrdinary(str)
    \/ /\ str # <<>>
       /\ str[1] = DQUOTE
       /\ DQUOTE \notin Chars(Tail(str))
\* a separator between a key and its value: blanks around an optional `:`
IsKeySeparator(str) ==
    /\ str # <<>>
    /\ \E i \in 0..Len(str) :
          /\ AllBlank(SubSeq(str, 1, i))
          /\ \/ AllBlank(SubSeq(str, i + 1, Len(str)))
             \/ /\ i < Len(str)
                /\ str[i + 1] = ":"
                /\ AllBlank(SubSeq(str, i + 2, Len(str)))
\* blanks, or blanks, a bare key and a separator
IsLead(str) ==
    \/ AllBlank(str)
    \/ \E j \in 0..Len(str) : \E k \in (j + 1)..Len(str) :
          /\ AllBlank(SubSeq(str, 1, j))
          /\ AllOrdinary(SubSeq(str, j + 1, k))
          /\ IsKeySeparator(SubSeq(str, k + 1, Len(str)))
\* str ends inside the first key or the first value
IsEscapeContext(str) ==
    \E i \in 0..Len(str) :
        IsLead(SubSeq(str, 1, i)) /\ IsTokenStart(SubSeq(str, i + 1, Len(str)))

FirstBackslash(str) ==
    CHOOSE i \in DOMAIN str : str[i] = BSLASH /\ \A j \in 1..(i - 1) : str[j] # BSLASH

ExpectedEscapeError(rest) ==
    IF rest = <<>> THEN GonError("EscapeCharacterExpected", <<>>)
    ELSE IF rest[1] = "u" THEN GonError("HexEscapesNotSupported", <<>>)
    ELSE GonError("UnexpectedEscapeCharacter", <<rest[1]>>)

\* C8: the first backslash of the input, in the first key or value, gives its
\* error, and a returned escape error is the one of the backslash just read
C8_EscapeErrors ==
    Done =>
        /\ BSLASH \in Chars(s) =>
             LET i == FirstBackslash(s)
                 rest == SubSeq(s, i + 1, Len(s))
             IN  ( /\ IsEscapeContext(SubSeq(s, 1, i - 1))
                   /\ (rest = <<>> \/ rest[1] \notin DOMAIN EscapeOf) )
                 => ret = Err(ExpectedEscapeError(rest))
        /\ (ret.tag = "Err" /\ ret.err.kind \in EscapeErrors) =>
             CASE ret.err.kind = "EscapeCharacterExpected" ->
                    p = Len(s) /\ p >= 1 /\ s[p] = BSLASH
               [] ret.err.kind = "HexEscapesNotSupported" ->
                    p >= 2 /\ s[p] = "u" /\ s[p - 1] = BSLASH
               [] ret.err.kind = "UnexpectedEscapeCharacter" ->
                    /\ p >= 2
                    /\ ret.err.arg = <<s[p]>>
                    /\ s[p - 1] = BSLASH
                    /\ s[p] \notin (DOMAIN EscapeOf) \cup {"u"}

\* the quoted value of key a has failed on \u
C8_Witness ==
    /\ Done
    /\ s = <<"a", " ", DQUOTE, BSLASH, "u">>
    /\ ret = Err(GonError("HexEscapesNotSupported", <<>>))

(***************************************************************************)
(* C9: a `#` that is not at a token boundary is literal text: a `#` after  *)
(* the first character of a bare token, and a `#`, a structural character  *)
(* or whitespace inside a quoted string, is kept in the key or Value and   *)
(* neither ends the token nor starts a comment.  Stated of the inputs that *)
(* are one such token, or two of them with a blank between.                *)
(***************************************************************************)
\* a bare token that does not begin with `#`, or a quoted string without escapes
IsHashToken(str) ==
    \/ str # <<>> /\ AllOrdinary(str) /\ str[1] # "#"
    \/ /\ Len(str) >= 2
       /\ str[1] = DQUOTE
       /\ str[Len(str)] = DQUOTE
       /\ Chars(SubSeq(str, 2, Len(str) - 1)) \cap {DQUOTE, BSLASH} = {}
HashTokenText(str) == IF str[1] = DQUOTE THEN SubSeq(str, 2, Len(str) - 1) ELSE str

\* C9: one token gives the Value of its text and two give the Object of key
\* and Value, every `#` and every quoted character kept
C9_HashInsideToken ==
    Done =>
        /\ IsHashToken(s) => ret = Ok(GonValue(HashTokenText(s)))
        /\ \A i \in 2..(Len(s) - 1) :
             ( /\ s[i] = " "
               /\ IsHashToken(SubSeq(s, 1, i - 1))
               /\ IsHashToken(SubSeq(s, i + 1, Len(s))) )
             => ret = Ok(GonObject(HashTokenText(SubSeq(s, 1, i - 1)) :>
                            GonValue(HashTokenText(SubSeq(s, i + 1, Len(s))))))

\* the text2 line of test::comments has kept both of its hashes
C9_Witness ==
    /\ Done
    /\ s = TestHashes
    /\ ret.tag = "Ok"
    /\ ret.gon.map[<<"t", "e", "x", "t", "2">>].str
          = <<"H", "a", "s", "h", "e", "s", "_", "#", "i", "n", "s", "i", "d", "e", "#">>

(***************************************************************************)
(* C10: an input with a `[` that no `]` matches, and an input with an      *)
(* opening quote that is never closed, never parses successfully.  Stated  *)
(* of the inputs without quotes and escapes that hold more `[` than `]`,   *)
(* and of the inputs without escapes whose only quote opens a token.       *)
(***************************************************************************)
Count(str, c) == Cardinality({i \in DOMAIN str : str[i] = c})

\* C10: no input with an unmatched `[` or an unclosed opening quote gives Ok
C10_UnmatchedNeverParses ==
    Done =>
        /\ ( /\ Chars(s) \cap {DQUOTE, BSLASH} = {}
             /\ Count(s, "[") > Count(s, "]") )
           => ret.tag = "Err"
        /\ ( /\ BSLASH \notin Chars(s)
             /\ Count(s, DQUOTE) = 1
             /\ \E i \in DOMAIN s :
                   s[i] = DQUOTE /\ (i = 1 \/ ~Ordinary(s[i - 1])) )
           => ret.tag = "Err"

(***************************************************************************)
(* C11: end of input ends the brace-less top-level object only.  When an   *)
(* object opened by `{` meets end of input where its next entry or its `}` *)
(* would stand, Gon::parse fails with ClosingBraceExpected; the same       *)
(* entries without the `{` at top level give the Object.  Stated of every  *)
(* step of parse_object and of the `{` arm of parse_val at end of input,   *)
(* at any depth, and of the runs of whole entries with distinct keys       *)
(* behind `{ ` and on their own.                                           *)
(***************************************************************************)
\* parse_object stands at end of input where an entry would begin
AtBoundaryEOF == Running("parse_object", "loop") /\ ret = NoRet /\ peek(s, cur) = None
\* the running parse_object was called by the `{` arm of parse_val
OpenedByBrace ==
    /\ Len(stack) >= 2
    /\ stack[Len(stack) - 1].fn = "parse_val"
    /\ stack[Len(stack) - 1].at = "object"
\* the running parse_object is the brace-less one Gon::parse called
BraceLess == Len(stack) = 1 /\ pc = "object"

\* parse_object hands the entries read so far to its caller
C11_BoundaryEndsObject ==
    AtBoundaryEOF => (ret' = Ok(GonObject(Top.map)) /\ stack' = Pop)
\* the `{` arm, handed an object at end of input, raises ClosingBraceExpected
C11_BraceRequired ==
    (Running("parse_val", "object") /\ ret.tag = "Ok" /\ peek(s, cur) = None)
        => ret' = Err(GonError("ClosingBraceExpected", <<>>))
\* and that error is what Gon::parse returns
C11_ErrorKept ==
    (ret.tag = "Err" /\ ret.err.kind = "ClosingBraceExpected") => ret' = ret
\* Gon::parse, handed the brace-less object at end of input, returns it
C11_BraceLessAccepted ==
    (pc = "object" /\ stack = <<>> /\ ret.tag = "Ok" /\ peek(s, p) = None)
        => (pc' = "done" /\ ret' = ret)

\* str is `{ ` and a run of whole entries with distinct keys
IsOpenRun(str) ==
    /\ Len(str) >= 2
    /\ SubSeq(str, 1, 2) = <<"{", " ">>
    /\ IsFlatRun(SubSeq(str, 3, Len(str)))
    /\ Len(str) % 4 = 2
    /\ Repeats(SubSeq(str, 3, Len(str))) = {}

C11_Runs ==
    Done =>
        /\ IsOpenRun(s) => ret = Err(GonError("ClosingBraceExpected", <<>>))
        /\ (IsFlatRun(s) /\ Len(s) % 4 = 0 /\ Repeats(s) = {}) =>
              (ret.tag = "Ok" /\ ret.gon.tag = "Object" /\ ret = ExpectedOfRun(s))
        /\ (s # <<>> /\ s[1] = "{" /\ "}" \notin Chars(s)) => ret.tag = "Err"

\* C11: an object opened by `{` that meets end of input at an entry boundary
\* fails with ClosingBraceExpected, the brace-less top-level object is returned
C11_EndOfInputOnlyBraceLess ==
    /\ [][C11_BoundaryEndsObject /\ C11_BraceRequired /\ C11_ErrorKept
            /\ C11_BraceLessAccepted]_vars
    /\ []C11_Runs

\* `{ a b b a ` has failed with ClosingBraceExpected after its two entries
C11_Witness ==
    /\ Done
    /\ s = <<"{", " ", "a", " ", "b", " ", "b", " ", "a", " ">>
    /\ ret = Err(GonError("ClosingBraceExpected", <<>>))

(***************************************************************************)
(* C12: separators are optional and carry no meaning.  A single `:` (with  *)
(* any whitespace around it) between a key and its value, and a single `,` *)
(* after an object entry or an array element, the last one too, gives the  *)
(* same tree as whitespace in its place; skip_whitespace_and_token         *)
(* consumes at most one occurrence of its token and no other character     *)
(* that is not whitespace.  Stated of every call of                        *)
(* skip_whitespace_and_token the parse makes, and of the entries and       *)
(* elements of Separated: whichever way their separators are written, the  *)
(* result is the one their words alone decide, that of the same words      *)
(* with one blank after each.                                              *)
(***************************************************************************)
IsWord(c) == c \in {"a", "b"}
WordsOf(str) == SelectSeq(str, IsWord)

\* str is a row of entries of SepEntry / of elements of SepElem
RECURSIVE IsSepEntries(_)
IsSepEntries(str) ==
    \/ str = <<>>
    \/ \E e \in SepEntry :
          /\ Len(e) <= Len(str)
          /\ SubSeq(str, 1, Len(e)) = e
          /\ IsSepEntries(SubSeq(str, Len(e) + 1, Len(str)))
RECURSIVE IsSepElems(_)
IsSepElems(str) ==
    \/ str = <<>>
    \/ \E e \in SepElem :
          /\ Len(e) <= Len(str)
          /\ SubSeq(str, 1, Len(e)) = e
          /\ IsSepElems(SubSeq(str, Len(e) + 1, Len(str)))
\* str is open, a row the recogniser accepts, close
Enclosed(str, open, close) ==
    /\ Len(str) >= 2
    /\ str[1] = open
    /\ str[Len(str)] = close
Inner(str) == SubSeq(str, 2, Len(str) - 1)

\* the characters from cursor from to cursor to are whitespace and at most
\* one c, and the cursor stops at the next character that is not whitespace
SepOnly(from, to, c) ==
    LET sl == SubSeq(s, from + 1, to)
    IN  /\ from <= to
        /\ \A i \in DOMAIN sl : IsBlank(sl[i]) \/ sl[i] = c
        /\ Count(sl, c) <= 1
        /\ peek(s, to) = None \/ ~IsBlank(peek(s, to))

\* parse_object has read a key / is about to insert an entry; the array loop
\* is about to push an element
AfterKey ==
    /\ Running("parse_object", "loop")
    /\ ret = NoRet
    /\ peek(s, cur) \notin {"}", None}
    /\ parse_string(s, cur).ok
AfterEntry ==
    Running("parse_object", "val") /\ ret.tag = "Ok" /\ ~MapHas(Top.map, Top.key)
AfterElem == Running("parse_val", "array_elem") /\ ret.tag = "Ok"

C12_AtMostOneToken ==
    /\ AfterKey => SepOnly(parse_string(s, cur).pos, cur', ":")
    /\ AfterEntry => SepOnly(cur, cur', ",")
    /\ AfterElem => SepOnly(cur, cur', ",")

C12_SameTree ==
    Done =>
        /\ IsSepEntries(s) => ret = ExpectedOfRun(Spaced(WordsOf(s)))
        /\ (Enclosed(s, "{", "}") /\ IsSepEntries(Inner(s))) =>
              ret = ExpectedOfRun(Spaced(WordsOf(s)))
        /\ (Enclosed(s, "[", "]") /\ IsSepElems(Inner(s))) =>
              ret = Ok(GonArray([i \in 1..Len(WordsOf(s)) |-> GonValue(<<WordsOf(s)[i]>>)]))
        /\ s = TestJson =>
              ret = Ok(GonArray(<<GonObject(
                        (<<"i">> :> GonValue(<<"1", ",", "4">>))
                     @@ (<<"f">> :> GonArray(<<GonObject(<<"n">> :> GonValue(<<"0">>)),
                                               GonObject(<<"n">> :> GonValue(<<"1">>))>>)))>>))

\* C12: every call consumes whitespace and at most one token, and entries and
\* elements give the tree of their words however their separators are written
C12_SeparatorsOptional ==
    /\ [][C12_AtMostOneToken]_vars
    /\ []C12_SameTree

\* `a:a,b : a , ` has given the Object of `a a b a `
C12_Witness ==
    /\ Done
    /\ s = <<"a", ":", "a", ",", "b", " ", ":", " ", "a", " ", ",", " ">>
    /\ ret = Ok(GonObject((<<"a">> :> GonValue(<<"a">>)) @@ (<<"b">> :> GonValue(<<"a">>))))

(***************************************************************************)
(* C13: Gon::parse has no observable effect other than its return value:   *)
(* on the direct path, the implicit-object path and the single-value       *)
(* fallback alike it writes nothing to any output stream.                  *)
(***************************************************************************)
C13_NoOutput == stdout = <<>>

(***************************************************************************)
(* C14: InvalidGon and StringExpected are unreachable from Gon::parse.     *)
(* No call returns StringExpected, parse_string being called only where a  *)
(* character is available; the parse_val of the single-value fallback does *)
(* not fail, so InvalidGon is not raised; and an error, once raised, is    *)
(* the Result of Gon::parse unchanged, but for the ValueExpected of the    *)
(* first attempt that starts the fallback: every error Gon::parse returns  *)
(* is the first error of the first attempt, or EndOfFileExpected.          *)
(***************************************************************************)
\* the step that enters the fallback is about to be taken
FallbackStarts ==
    pc = "object" /\ stack = <<>> /\ ret = Err(GonError("ValueExpected", <<>>))

C14_Unreachable ==
    /\ ret.err.kind \notin {"InvalidGon", "StringExpected"}
    /\ pc = "fallback" => ret.tag # "Err"
    /\ (Done /\ FellBack) => ret.tag = "Ok"

C14_FirstErrorReturned ==
    /\ (ret.tag = "Err" /\ ~FallbackStarts) => ret' = ret
    /\ (ret.tag # "Err" /\ ret'.tag = "Err" /\ pc' = "done") =>
          ret'.err.kind = "EndOfFileExpected"

\* C14: neither variant is ever returned, the fallback does not fail, and the
\* error returned is the first one raised or EndOfFileExpected
C14_InvalidGonStringExpectedUnreachable ==
    /\ []C14_Unreachable
    /\ [][C14_FirstErrorReturned]_vars

\* the quoted string "a", read as a key first, has come back from the fallback
C14_Witness ==
    /\ Done
    /\ FellBack
    /\ s = <<DQUOTE, "a", DQUOTE>>
    /\ ret = Ok(GonValue(<<"a">>))

(***************************************************************************)
(* C15: for the empty input and for every input of whitespace characters   *)
(* only (space, tab, newline, carriage return) Gon::parse returns Ok with  *)
(* an Object that has no keys; it raises no error on the way, ValueExpected*)
(* included, and does not take the single-value fallback.                  *)
(***************************************************************************)
C15_BlankInputEmptyObject ==
    AllBlank(s) =>
        /\ ret.tag # "Err"
        /\ ~FellBack
        /\ pc # "fallback"
        /\ Done => (ret = Ok(GonObject(EmptyMap)) /\ DOMAIN ret.gon.map = {})

\* tab, newline, carriage return has given the Object without keys
C15_Witness ==
    /\ Done
    /\ s = <<"TAB", "LF", "CR">>
    /\ ret = Ok(GonObject(EmptyMap))

=============================================================================
